---- MODULE Spec2Model ----
(***************************************************************************)
(* Greedy set cover (crates/setcover-core): the naive selector             *)
(* greedy_set_cover_0, the bitset selector greedy_set_cover_1 and the      *)
(* dispatcher greedy_set_cover, as a state machine.                        *)
(*                                                                         *)
(* Two calls are made, one after the other, as in the tests.  A            *)
(* call advances one statement block at a time: the set-up of a selector,  *)
(* one iteration of its `for _ in 0..sets.len()` loop, the code after the  *)
(* loop.  The iteration order of every hash container (the input map, the  *)
(* bit_sets map, the cover set) is unspecified, so it is a value chosen    *)
(* when the container is built and kept for as long as the container is    *)
(* not modified.                                                           *)
(***************************************************************************)
EXTENDS Integers, Sequences, FiniteSets, TLC

\* Bounds of the model.
MaxSets == 3
MaxElem == 3
MaxLen == 2
\* The longest chain of test_large_number_of_small_sets that is run.
MaxChain == 4

Keys == 1..MaxSets
Elems == 1..MaxElem
\* Vec<T>: every sequence of elements up to MaxLen, duplicates allowed.
Vecs == UNION {[1..l -> Elems] : l \in 0..MaxLen}
\* Option::None for a key.
None == 0
Calls == {1, 2}
\* The values of `algo: i16` that greedy_set_cover is called with.
Algos == {-1, 0, 1, 2}

VARIABLES
    sets,        \* the input HashMap<K, Vec<T>>: a function from its keys to Vecs
    sets_order,  \* the order in which `sets` iterates: a permutation of its keys
    call         \* call[c]: the state of the c-th call of the harness

vars == <<sets, sets_order, call>>

Range(f) == {f[x] : x \in DOMAIN f}

\* Every order in which a hash container holding the keys S can iterate.
Perms(S) ==
    {p \in [1..Cardinality(S) -> S] : \A i, j \in DOMAIN p : i # j => p[i] # p[j]}

(***************************************************************************)
(* Bit vectors: functions from 0..n-1 to BOOLEAN.                          *)
(***************************************************************************)
bitvec(b, n) == [i \in 0..(n - 1) |-> b]
bit_and(a, b) == [i \in DOMAIN a |-> a[i] /\ b[i]]
\* Faulty variant of bit_not: the complement is forgotten.
bit_same(a) == a

\* !a
bit_not(a) == [i \in DOMAIN a |-> ~a[i]]

\* Faulty variant of count_ones: the position after the last bit set, which
\* depends on the ids given to the elements.
last_one(a) ==
    IF \E i \in DOMAIN a : a[i]
    THEN 1 + CHOOSE i \in DOMAIN a : a[i] /\ \A j \in DOMAIN a : a[j] => j <= i
    ELSE 0

\* Faulty variant of count_ones: the length instead of the population count.
bit_len(a) == Cardinality(DOMAIN a)

\* a.count_ones()
count_ones(a) == Cardinality({i \in DOMAIN a : a[i]})
any(a) == \E i \in DOMAIN a : a[i]
not_any(a) == ~any(a)

(***************************************************************************)
(* The comparison that decides whether a candidate replaces the best.      *)
(***************************************************************************)
\* Faulty variant of better: the first candidate of positive count wins.
better_than_zero(count, best_count) == count > 0 /\ best_count = 0

\* Faulty variant of better: a candidate of equal count replaces the best.
better_or_equal(count, best_count) == count >= best_count

\* covered_count > best_set_covered_count
better(count, best_count) == count > best_count

\* Faulty variant of len: one round too few.
len_minus_one(s) == Cardinality(DOMAIN s) - 1

\* sets.len()
len(s) == Cardinality(DOMAIN s)

(***************************************************************************)
(* The state of a call.                                                    *)
(***************************************************************************)
\* A call that has not started.  `entry` is the function called, `algo` its
\* second argument (read by greedy_set_cover only), `arg` the map passed to it:
\* the input as it is, or the input without its empty sets.  `selector` is the
\* selector whose body runs: the entry itself, or the one greedy_set_cover calls.
NewCall(entry, algo, arg) ==
    [entry |-> entry, algo |-> algo, arg |-> arg,
     pc |-> IF entry = "greedy_set_cover" THEN "dispatch" ELSE "start",
     selector |-> IF entry = "greedy_set_cover" THEN "" ELSE entry,
     uncovered_elements |-> {},
     cover |-> {},
     rounds |-> 0,
     picks |-> <<>>,
     history |-> <<>>,
     mapping |-> <<>>,
     bit_sets |-> <<>>,
     bit_order |-> <<>>,
     intersection_buffer |-> <<>>,
     best_intersection |-> <<>>,
     elements |-> <<>>,
     seen |-> <<>>,
     next_id |-> 0,
     result |-> <<>>]

\* if !set.is_empty() { function_input.insert(..) }
non_empty(k) == Len(sets[k]) > 0

\* The map passed to call c, and the order in which it iterates.
arg_sets(c) ==
    IF call[c].arg = "non_empty"
    THEN [k \in {k \in DOMAIN sets : non_empty(k)} |-> sets[k]]
    ELSE sets

arg_order(c) ==
    IF call[c].arg = "non_empty" THEN SelectSeq(sets_order, non_empty) ELSE sets_order

\* The calls are made one after the other; a panic ends the run.
Turn(c) == \A d \in Calls : d < c => call[d].pc = "returned"

(***************************************************************************)
(* greedy_set_cover_0                                                      *)
(***************************************************************************)
\* sets.values().flatten(): the elements of all sets, in iteration order.
RECURSIVE values_flatten(_, _, _)
values_flatten(s, order, k) ==
    IF k > Len(order) THEN <<>>
    ELSE s[order[k]] \o values_flatten(s, order, k + 1)

\* Faulty variant of collect_elements: only the first set is collected.
first_set_only(s, order) ==
    IF Len(order) = 0 THEN {} ELSE Range(s[order[1]])

\* sets.values().flatten().cloned().collect::<HashSet<T>>()
collect_elements(s, order) == Range(values_flatten(s, order, 1))

\* set_elements.iter().filter(|e| uncovered_elements.contains(e)).cloned().collect()
covered_by_this_set(set_elements, uncovered) ==
    {set_elements[j] : j \in {j \in DOMAIN set_elements : set_elements[j] \in uncovered}}

\* The scan `for (key, set_elements) in sets` of one round, from position k.
RECURSIVE scan_0(_, _, _, _, _)
scan_0(s, order, k, uncovered, best) ==
    IF k > Len(order) THEN best
    ELSE LET key == order[k]
             covered == covered_by_this_set(s[key], uncovered)
         IN  scan_0(s, order, k + 1, uncovered,
                    IF better(Cardinality(covered), Cardinality(best.best_set_covered))
                    THEN [best_set_key |-> key, best_set_covered |-> covered]
                    ELSE best)

\* Faulty variant of retain: the negation is forgotten.
retain_covered(uncovered, best_set_covered) ==
    {e \in uncovered : e \in best_set_covered}

\* uncovered_elements.retain(|e| !best_set_covered.contains(e))
retain(uncovered, best_set_covered) ==
    {e \in uncovered : e \notin best_set_covered}

Start0(c) ==
    /\ Turn(c)
    /\ call[c].pc = "start" /\ call[c].selector = "greedy_set_cover_0"
    /\ call' = [call EXCEPT ![c] =
            [@ EXCEPT !.pc = "loop",
                      !.uncovered_elements = collect_elements(arg_sets(c), arg_order(c)),
                      !.history = <<collect_elements(arg_sets(c), arg_order(c))>>,
                      !.cover = {}]]
    /\ UNCHANGED <<sets, sets_order>>

\* One iteration of the loop of greedy_set_cover_0 that does not break.
Round0(c) ==
    /\ Turn(c)
    /\ call[c].pc = "loop" /\ call[c].selector = "greedy_set_cover_0"
    /\ call[c].rounds < len(arg_sets(c))
    /\ call[c].uncovered_elements # {}
    /\ LET best == scan_0(arg_sets(c), arg_order(c), 1, call[c].uncovered_elements,
                          [best_set_key |-> None, best_set_covered |-> {}])
       IN  call' = [call EXCEPT ![c] =
               IF best.best_set_key # None
               THEN [@ EXCEPT !.uncovered_elements = retain(@, best.best_set_covered),
                              !.cover = @ \cup {best.best_set_key},
                              !.picks = Append(@, best.best_set_key),
                              !.history = Append(@, retain(call[c].uncovered_elements,
                                                           best.best_set_covered)),
                              !.rounds = @ + 1]
               ELSE [@ EXCEPT !.pc = "panic_unable", !.rounds = @ + 1]]
    /\ UNCHANGED <<sets, sets_order>>

\* Faulty variant of into_vec: the set is iterated twice.
into_vec_twice(cover, p) == p \o p

\* cover.into_iter().collect(): the cover in the iteration order p of its HashSet.
into_vec(cover, p) == p

\* The end of the loop (its bound or its break), the check after it, the return.
Finish0(c) ==
    /\ Turn(c)
    /\ call[c].pc = "loop" /\ call[c].selector = "greedy_set_cover_0"
    /\ call[c].rounds = len(arg_sets(c)) \/ call[c].uncovered_elements = {}
    /\ \E p \in Perms(call[c].cover) :
          call' = [call EXCEPT ![c] =
              IF call[c].uncovered_elements # {}
              THEN [@ EXCEPT !.pc = "panic_could_not"]
              ELSE [@ EXCEPT !.pc = "returned", !.result = into_vec(call[c].cover, p)]]
    /\ UNCHANGED <<sets, sets_order>>

(***************************************************************************)
(* greedy_set_cover_1                                                      *)
(***************************************************************************)
\* mapping.entry(element).or_insert_with(next id), over the elements from position j.
RECURSIVE map_elements(_, _, _, _)
map_elements(elements, j, mapping, next_id) ==
    IF j > Len(elements) THEN mapping
    ELSE IF elements[j] \in DOMAIN mapping
         THEN map_elements(elements, j + 1, mapping, next_id)
         ELSE map_elements(elements, j + 1,
                           [e \in DOMAIN mapping \cup {elements[j]} |->
                               IF e = elements[j] THEN next_id ELSE mapping[e]],
                           next_id + 1)

\* Faulty variant of encode: the bit of an element is flipped, so that an
\* element written twice clears its bit again.
RECURSIVE encode_toggle(_, _, _, _)
encode_toggle(elements, j, mapping, bv) ==
    IF j > Len(elements) THEN bv
    ELSE encode_toggle(elements, j + 1, mapping,
                       IF elements[j] \in DOMAIN mapping
                       THEN [bv EXCEPT ![mapping[elements[j]]] = ~@]
                       ELSE bv)

\* The bit vector of one set: bv.set(id, true) for each of its elements from position j.
RECURSIVE encode(_, _, _, _)
encode(elements, j, mapping, bv) ==
    IF j > Len(elements) THEN bv
    ELSE encode(elements, j + 1, mapping,
                IF elements[j] \in DOMAIN mapping
                THEN [bv EXCEPT ![mapping[elements[j]]] = TRUE]
                ELSE bv)

\* Faulty variant of elements_to_remove: the scratch buffer is read after the
\* scan, when later candidates have overwritten it.
elements_to_remove_buffer(st) == st.intersection_buffer

\* if let Some(elements_to_remove) = best_intersection
elements_to_remove(st) == st.best_intersection

\* The scan `for (key, bit_set) in &bit_sets` of one round, from position k.
RECURSIVE scan_1(_, _, _, _, _, _)
scan_1(bit_sets, order, k, uncovered, cover, st) ==
    IF k > Len(order) THEN st
    ELSE LET key == order[k] IN
         IF key \in cover THEN scan_1(bit_sets, order, k + 1, uncovered, cover, st)
         ELSE LET buffer == bit_and(bit_sets[key], uncovered)
                  covered_count == count_ones(buffer)
              IN  scan_1(bit_sets, order, k + 1, uncovered, cover,
                         IF better(covered_count, st.best_set_covered_count)
                         THEN [best_set_key |-> key,
                               best_set_covered_count |-> covered_count,
                               best_intersection |-> buffer,
                               intersection_buffer |-> buffer]
                         ELSE [st EXCEPT !.intersection_buffer = buffer])

\* The set-up of greedy_set_cover_1: the mapping, the bit vectors, the loop's state.
Start1(c) ==
    /\ Turn(c)
    /\ call[c].pc = "start" /\ call[c].selector = "greedy_set_cover_1"
    /\ LET mapping == map_elements(values_flatten(arg_sets(c), arg_order(c), 1), 1, <<>>, 0)
           universe_size == Cardinality(DOMAIN mapping)
       IN  \E order \in Perms(DOMAIN arg_sets(c)) :
              call' = [call EXCEPT ![c] =
                  [@ EXCEPT !.pc = "loop",
                            !.mapping = mapping,
                            !.bit_sets = [key \in DOMAIN arg_sets(c) |->
                                encode(arg_sets(c)[key], 1, mapping,
                                       bitvec(FALSE, universe_size))],
                            !.bit_order = order,
                            !.uncovered_elements = bitvec(TRUE, universe_size),
                            !.history = <<bitvec(TRUE, universe_size)>>,
                            !.cover = {},
                            !.intersection_buffer = <<>>]]
    /\ UNCHANGED <<sets, sets_order>>

\* One iteration of the loop of greedy_set_cover_1 that does not break.
Round1(c) ==
    /\ Turn(c)
    /\ call[c].pc = "loop" /\ call[c].selector = "greedy_set_cover_1"
    /\ call[c].rounds < len(arg_sets(c))
    /\ any(call[c].uncovered_elements)
    /\ LET st == scan_1(call[c].bit_sets, call[c].bit_order, 1,
                        call[c].uncovered_elements, call[c].cover,
                        [best_set_key |-> None, best_set_covered_count |-> 0,
                         best_intersection |-> None,
                         intersection_buffer |-> call[c].intersection_buffer])
       IN  call' = [call EXCEPT ![c] =
               IF st.best_set_key # None
               THEN [@ EXCEPT !.uncovered_elements = bit_and(@, bit_not(elements_to_remove(st))),
                              !.cover = @ \cup {st.best_set_key},
                              !.picks = Append(@, st.best_set_key),
                              !.history = Append(@, bit_and(call[c].uncovered_elements,
                                                            bit_not(elements_to_remove(st)))),
                              !.intersection_buffer = st.intersection_buffer,
                              !.best_intersection = st.best_intersection,
                              !.rounds = @ + 1]
               ELSE [@ EXCEPT !.pc = "panic_unable", !.rounds = @ + 1,
                              !.intersection_buffer = st.intersection_buffer]]
    /\ UNCHANGED <<sets, sets_order>>

\* The end of the loop (its bound or its break), the check after it, the return.
Finish1(c) ==
    /\ Turn(c)
    /\ call[c].pc = "loop" /\ call[c].selector = "greedy_set_cover_1"
    /\ call[c].rounds = len(arg_sets(c)) \/ not_any(call[c].uncovered_elements)
    /\ \E p \in Perms(call[c].cover) :
          call' = [call EXCEPT ![c] =
              IF any(call[c].uncovered_elements)
              THEN [@ EXCEPT !.pc = "panic_could_not"]
              ELSE [@ EXCEPT !.pc = "returned", !.result = into_vec(call[c].cover, p)]]
    /\ UNCHANGED <<sets, sets_order>>

(***************************************************************************)
(* greedy_set_cover_1 of src/rust: the mapping is built from the universe   *)
(* hash set, the scan does not skip the sets already chosen, and the cover  *)
(* hash set itself is returned.                                             *)
(***************************************************************************)
\* make_universe(sets): sets.values().flatten().cloned().collect()
make_universe(s, order) == Range(values_flatten(s, order, 1))

\* The scan `for (key, bit_set) in &bit_sets` of one round, from position k.
RECURSIVE rust_scan_1(_, _, _, _, _)
rust_scan_1(bit_sets, order, k, uncovered, st) ==
    IF k > Len(order) THEN st
    ELSE LET key == order[k]
             buffer == bit_and(bit_sets[key], uncovered)
             covered_count == count_ones(buffer)
         IN  rust_scan_1(bit_sets, order, k + 1, uncovered,
                         IF better(covered_count, st.best_set_covered_count)
                         THEN [best_set_key |-> key,
                               best_set_covered_count |-> covered_count,
                               best_intersection |-> buffer,
                               intersection_buffer |-> buffer]
                         ELSE [st EXCEPT !.intersection_buffer = buffer])

\* The set-up: universe.into_iter() yields the elements in the order the
\* universe hash set iterates, and the mapping numbers them in that order.
RustStart1(c) ==
    /\ Turn(c)
    /\ call[c].pc = "start" /\ call[c].selector = "rust::greedy_set_cover_1"
    /\ \E universe \in Perms(make_universe(arg_sets(c), arg_order(c))) :
       \E order \in Perms(DOMAIN arg_sets(c)) :
          LET mapping == map_elements(universe, 1, <<>>, 0)
              universe_size == Cardinality(DOMAIN mapping)
          IN  call' = [call EXCEPT ![c] =
                  [@ EXCEPT !.pc = "loop",
                            !.mapping = mapping,
                            !.bit_sets = [key \in DOMAIN arg_sets(c) |->
                                encode(arg_sets(c)[key], 1, mapping,
                                       bitvec(FALSE, universe_size))],
                            !.bit_order = order,
                            !.uncovered_elements = bitvec(TRUE, universe_size),
                            !.history = <<bitvec(TRUE, universe_size)>>,
                            !.cover = {},
                            !.intersection_buffer = <<>>]]
    /\ UNCHANGED <<sets, sets_order>>

\* One iteration of the loop that does not break.
RustRound1(c) ==
    /\ Turn(c)
    /\ call[c].pc = "loop" /\ call[c].selector = "rust::greedy_set_cover_1"
    /\ call[c].rounds < len(arg_sets(c))
    /\ any(call[c].uncovered_elements)
    /\ LET st == rust_scan_1(call[c].bit_sets, call[c].bit_order, 1,
                             call[c].uncovered_elements,
                             [best_set_key |-> None, best_set_covered_count |-> 0,
                              best_intersection |-> None,
                              intersection_buffer |-> call[c].intersection_buffer])
       IN  call' = [call EXCEPT ![c] =
               IF st.best_set_key # None
               THEN [@ EXCEPT !.uncovered_elements = bit_and(@, bit_not(elements_to_remove(st))),
                              !.cover = @ \cup {st.best_set_key},
                              !.picks = Append(@, st.best_set_key),
                              !.history = Append(@, bit_and(call[c].uncovered_elements,
                                                            bit_not(elements_to_remove(st)))),
                              !.intersection_buffer = st.intersection_buffer,
                              !.best_intersection = st.best_intersection,
                              !.rounds = @ + 1]
               ELSE [@ EXCEPT !.pc = "panic_unable", !.rounds = @ + 1,
                              !.intersection_buffer = st.intersection_buffer]]
    /\ UNCHANGED <<sets, sets_order>>

\* The end of the loop (its bound or its break), the check after it, the return
\* of the cover hash set.
RustFinish1(c) ==
    /\ Turn(c)
    /\ call[c].pc = "loop" /\ call[c].selector = "rust::greedy_set_cover_1"
    /\ call[c].rounds = len(arg_sets(c)) \/ not_any(call[c].uncovered_elements)
    /\ call' = [call EXCEPT ![c] =
           IF any(call[c].uncovered_elements)
           THEN [@ EXCEPT !.pc = "panic_could_not"]
           ELSE [@ EXCEPT !.pc = "returned", !.result = call[c].cover]]
    /\ UNCHANGED <<sets, sets_order>>

(***************************************************************************)
(* map_elements_to_integers_owned, one element of its `for` loop at a time. *)
(* `elements` is what the iterator has yet to yield, `seen` what it has     *)
(* yielded.                                                                 *)
(***************************************************************************)
\* Faulty variant of entry_or_insert_with: next_id is advanced for every
\* element, mapped already or not.
entry_or_insert_counting(mapping, element, next_id) ==
    IF element \in DOMAIN mapping
    THEN [mapping |-> mapping, next_id |-> next_id + 1]
    ELSE [mapping |-> [e \in DOMAIN mapping \cup {element} |->
                          IF e = element THEN next_id ELSE mapping[e]],
          next_id |-> next_id + 1]

\* Faulty variant of entry_or_insert_with: insert() in place of the entry API,
\* so that an element met again is given a new id.
entry_insert(mapping, element, next_id) ==
    [mapping |-> [e \in DOMAIN mapping \cup {element} |->
                     IF e = element THEN next_id ELSE mapping[e]],
     next_id |-> next_id + 1]

\* mapping.entry(element).or_insert_with(|| { let id = next_id; next_id += 1; id })
entry_or_insert_with(mapping, element, next_id) ==
    IF element \in DOMAIN mapping
    THEN [mapping |-> mapping, next_id |-> next_id]
    ELSE [mapping |-> [e \in DOMAIN mapping \cup {element} |->
                          IF e = element THEN next_id ELSE mapping[e]],
          next_id |-> next_id + 1]

\* The sequences the argument `elements` of call c can yield: the elements of
\* all sets as the input map iterates, or the universe as its hash set iterates.
elements_of(c) ==
    IF call[c].arg = "universe"
    THEN Perms(make_universe(sets, sets_order))
    ELSE {values_flatten(arg_sets(c), arg_order(c), 1)}

\* let mut mapping = HashMap::new(); let mut next_id = 0;
MapStart(c) ==
    /\ Turn(c)
    /\ call[c].pc = "start" /\ call[c].selector = "map_elements_to_integers_owned"
    /\ \E elements \in elements_of(c) :
          call' = [call EXCEPT ![c] =
              [@ EXCEPT !.pc = "for", !.elements = elements, !.seen = <<>>,
                        !.mapping = <<>>, !.next_id = 0]]
    /\ UNCHANGED <<sets, sets_order>>

\* One iteration of `for element in elements`.
MapElement(c) ==
    /\ Turn(c)
    /\ call[c].pc = "for" /\ call[c].selector = "map_elements_to_integers_owned"
    /\ Len(call[c].elements) > 0
    /\ LET element == Head(call[c].elements)
           entry == entry_or_insert_with(call[c].mapping, element, call[c].next_id)
       IN  call' = [call EXCEPT ![c] =
               [@ EXCEPT !.mapping = entry.mapping, !.next_id = entry.next_id,
                         !.elements = Tail(@), !.seen = Append(@, element)]]
    /\ UNCHANGED <<sets, sets_order>>

\* The end of the loop: the mapping is returned.
MapReturn(c) ==
    /\ Turn(c)
    /\ call[c].pc = "for" /\ call[c].selector = "map_elements_to_integers_owned"
    /\ Len(call[c].elements) = 0
    /\ call' = [call EXCEPT ![c] = [@ EXCEPT !.pc = "returned", !.result = call[c].mapping]]
    /\ UNCHANGED <<sets, sets_order>>

(***************************************************************************)
(* greedy_set_cover                                                        *)
(***************************************************************************)
\* Faulty variant of match_algo: the two arms are swapped.
match_algo_swapped(algo) ==
    IF algo = 0 THEN "greedy_set_cover_1"
    ELSE IF algo = 1 THEN "greedy_set_cover_0" ELSE "panic"

\* Faulty variant of match_algo: the wildcard arm runs the naive selector.
match_algo_default(algo) ==
    IF algo = 1 THEN "greedy_set_cover_1" ELSE "greedy_set_cover_0"

\* match algo { 0 => greedy_set_cover_0(sets), 1 => greedy_set_cover_1(sets), _ => panic!() }
match_algo(algo) ==
    IF algo = 0 THEN "greedy_set_cover_0"
    ELSE IF algo = 1 THEN "greedy_set_cover_1" ELSE "panic"

Dispatch(c) ==
    /\ Turn(c)
    /\ call[c].pc = "dispatch"
    /\ call' = [call EXCEPT ![c] =
            IF match_algo(call[c].algo) = "panic"
            THEN [@ EXCEPT !.pc = "panic_algo"]
            ELSE [@ EXCEPT !.pc = "start", !.selector = match_algo(call[c].algo)]]
    /\ UNCHANGED <<sets, sets_order>>

(***************************************************************************)
(* The inputs and the runs.                                                *)
(***************************************************************************)
\* A number that orders the Vecs: the elements as digits, the length in front.
RECURSIVE Rank(_)
Rank(v) ==
    IF Len(v) = 0 THEN 0
    ELSE Rank(SubSeq(v, 1, Len(v) - 1)) * (MaxElem + 1) + v[Len(v)]

\* The inputs: up to MaxSets keys.  Keys are opaque (the code only compares them
\* for equality), so every input is a renaming of one whose values are listed in
\* non-decreasing rank; the iteration orders range over all permutations.
Inputs ==
    UNION {{s \in [1..n -> Vecs] : \A i, j \in 1..n : i < j => Rank(s[i]) <= Rank(s[j])}
           : n \in 0..MaxSets}

Selector(c) ==
    Start0(c) \/ Round0(c) \/ Finish0(c) \/ Start1(c) \/ Round1(c) \/ Finish1(c)

\* One input, given to greedy_set_cover_0 and then to greedy_set_cover_1.
Init ==
    /\ sets \in Inputs
    /\ sets_order \in Perms(DOMAIN sets)
    /\ call = [c \in Calls |->
                 IF c = 1 THEN NewCall("greedy_set_cover_0", 0, "sets")
                 ELSE NewCall("greedy_set_cover_1", 1, "sets")]

Next == \E c \in Calls : Selector(c)

Spec == Init /\ [][Next]_vars

\* One input of fewer than MaxSets sets, given to greedy_set_cover with some algo
\* and then to the selector of that number directly.
InitDispatch ==
    /\ sets \in {s \in Inputs : len(s) < MaxSets}
    /\ sets_order \in Perms(DOMAIN sets)
    /\ \E algo \in Algos :
          call = [c \in Calls |->
                    IF c = 1 THEN NewCall("greedy_set_cover", algo, "sets")
                    ELSE IF algo = 1 THEN NewCall("greedy_set_cover_1", 1, "sets")
                    ELSE NewCall("greedy_set_cover_0", 0, "sets")]

NextDispatch == \E c \in Calls : Dispatch(c) \/ Selector(c)

SpecDispatch == InitDispatch /\ [][NextDispatch]_vars

\* One input with an empty set in it, given to a selector as it is and then
\* without its empty sets.
InitNonEmpty ==
    /\ sets \in {s \in Inputs : \E k \in DOMAIN s : Len(s[k]) = 0}
    /\ sets_order \in Perms(DOMAIN sets)
    /\ \E f \in {0, 1} :
          call = [c \in Calls |->
                    NewCall(IF f = 0 THEN "greedy_set_cover_0" ELSE "greedy_set_cover_1", f,
                            IF c = 1 THEN "sets" ELSE "non_empty")]

SpecNonEmpty == InitNonEmpty /\ [][Next]_vars

\* The input of test_basic_case: the keys "A", "B", "C" are 1, 2, 3.
test_basic_case_sets == <<(<<1, 2, 3>>), (<<1, 2>>), (<<2>>)>>

InitBasicCase ==
    /\ sets = test_basic_case_sets
    /\ sets_order \in Perms(DOMAIN sets)
    /\ call = [c \in Calls |->
                 IF c = 1 THEN NewCall("greedy_set_cover_0", 0, "sets")
                 ELSE NewCall("greedy_set_cover_1", 1, "sets")]

SpecBasicCase == InitBasicCase /\ [][Next]_vars

\* The input of test_complex_deterministic_cases.
test_complex_sets ==
    <<(<<1, 2, 3, 4, 5, 6>>), (<<1, 2, 7>>), (<<3, 4, 8>>), (<<5, 6, 9>>), (<<7, 8, 9, 10>>)>>

InitComplexCase ==
    /\ sets = test_complex_sets
    /\ sets_order \in Perms(DOMAIN sets)
    /\ call = [c \in Calls |->
                 IF c = 1 THEN NewCall("greedy_set_cover_0", 0, "sets")
                 ELSE NewCall("greedy_set_cover_1", 1, "sets")]

SpecComplexCase == InitComplexCase /\ [][Next]_vars

\* The same runs as SpecDispatch, with no call left unfinished: the code is
\* sequential and nothing in it waits, so a step that can be taken is taken.
SpecFair == InitDispatch /\ [][NextDispatch]_vars /\ WF_vars(NextDispatch)

RustSelector(c) == RustStart1(c) \/ RustRound1(c) \/ RustFinish1(c)

\* One input of fewer than MaxSets sets, given to a selector of setcover-core and
\* then to greedy_set_cover_1 of src/rust.
InitRust ==
    /\ sets \in {s \in Inputs : len(s) < MaxSets}
    /\ sets_order \in Perms(DOMAIN sets)
    /\ \E f \in {0, 1} :
          call = [c \in Calls |->
                    IF c = 2 THEN NewCall("rust::greedy_set_cover_1", 1, "sets")
                    ELSE NewCall(IF f = 0 THEN "greedy_set_cover_0" ELSE "greedy_set_cover_1",
                                 f, "sets")]

NextRust == \E c \in Calls : Selector(c) \/ RustSelector(c)

SpecRust == InitRust /\ [][NextRust]_vars

\* The element indexer, given the elements of all sets of one input as
\* greedy_set_cover_1 of setcover-core walks them, and then the universe of that
\* input as greedy_set_cover_1 of src/rust passes it.
InitIndexer ==
    /\ sets \in Inputs
    /\ sets_order \in Perms(DOMAIN sets)
    /\ call = [c \in Calls |->
                 NewCall("map_elements_to_integers_owned", 0,
                         IF c = 1 THEN "sets" ELSE "universe")]

NextIndexer == \E c \in Calls : MapStart(c) \/ MapElement(c) \/ MapReturn(c)

SpecIndexer == InitIndexer /\ [][NextIndexer]_vars

\* The input of test_large_number_of_small_sets for n sets in place of 50:
\* for i in 0..n { sets.insert(i, vec![i, i + 1]) }, the key i written i + 1.
chain_sets(n) == [k \in 1..n |-> <<k - 1, k>>]

InitChain ==
    /\ \E n \in 3..MaxChain : sets = chain_sets(n)
    /\ sets_order \in Perms(DOMAIN sets)
    /\ call = [c \in Calls |->
                 IF c = 1 THEN NewCall("greedy_set_cover_0", 0, "sets")
                 ELSE NewCall("greedy_set_cover_1", 1, "sets")]

SpecChain == InitChain /\ [][Next]_vars

(***************************************************************************)
(* Vocabulary of the properties.                                           *)
(***************************************************************************)
Panics == {"panic_unable", "panic_could_not"}
Returned(c) == call[c].pc = "returned"
\* The Universe: the union of the elements of all input sets.
AllElements == UNION {Range(sets[k]) : k \in DOMAIN sets}
\* The union of the elements of the sets named by K.
ElementsOf(K) == UNION {Range(sets[k]) : k \in K}
NoRepeat(q) == \A i, j \in DOMAIN q : i # j => q[i] # q[j]
\* Call c runs a bitset selector.
Bitset(c) == call[c].selector \in {"greedy_set_cover_1", "rust::greedy_set_cover_1"}
\* The elements that a bit vector of call c stands for, through its mapping.
Decode(c, bv) == {e \in DOMAIN call[c].mapping : bv[call[c].mapping[e]]}
\* The uncovered elements of call c before its round k (k = 1 is the first round).
UncoveredBefore(c, k) ==
    IF Bitset(c)
    THEN Decode(c, call[c].history[k]) ELSE call[c].history[k]
Gain(key, uncovered) == Cardinality(Range(sets[key]) \cap uncovered)
\* In every round of call c so far exactly one set attained the largest gain.
NoTie(c) ==
    \A k \in 1..Len(call[c].picks) :
        LET u == UncoveredBefore(c, k)
            top == {key \in DOMAIN sets :
                       \A other \in DOMAIN sets : Gain(other, u) <= Gain(key, u)}
        IN  Cardinality(top) = 1
Universal(k) == Range(sets[k]) = AllElements
PairwiseDisjoint ==
    \A i, j \in DOMAIN sets : i # j => Range(sets[i]) \cap Range(sets[j]) = {}

(***************************************************************************)
(* Properties.                                                             *)
(***************************************************************************)
\* C1: whenever a selector returns, the union of the elements of the sets it
\* returns equals the union of the elements of all input sets.
C1_CoverCoversUniverse ==
    \A c \in Calls : Returned(c) => ElementsOf(Range(call[c].result)) = AllElements

\* Both selectors returned a cover of two or more sets on an input that holds an
\* empty set and a set with a repeated element.
C1_Witness ==
    /\ Returned(1) /\ Returned(2)
    /\ Len(call[1].result) >= 2 /\ Len(call[2].result) >= 2
    /\ \E k \in DOMAIN sets : Len(sets[k]) = 0
    /\ \E k \in DOMAIN sets : Len(sets[k]) = 2 /\ sets[k][1] = sets[k][2]

\* C2: neither selector reaches the panic inside the loop or the one after it.
C2_NoCouldNotCover == \A c \in Calls : call[c].pc \notin Panics

\* Both selectors used every round the loop allows and passed the check after it.
C2_Witness ==
    /\ Returned(1) /\ Returned(2)
    /\ len(sets) >= 2
    /\ call[1].rounds = len(sets) /\ call[2].rounds = len(sets)

\* C3: the returned cover holds at most as many identifiers as there are input sets.
C3_CoverAtMostSets ==
    \A c \in Calls : Returned(c) => Len(call[c].result) <= Cardinality(DOMAIN sets)

\* Both selectors returned as many identifiers as there are input sets.
C3_Witness ==
    /\ Returned(1) /\ Returned(2)
    /\ Cardinality(DOMAIN sets) >= 2
    /\ Len(call[1].result) = Cardinality(DOMAIN sets)
    /\ Len(call[2].result) = Cardinality(DOMAIN sets)

\* C4: at every point of the loop and in the result, the identifiers chosen are
\* keys of the input and none is chosen or returned twice.
C4_CoverKeysNoRepeat ==
    \A c \in Calls :
        /\ call[c].cover \subseteq DOMAIN sets
        /\ Range(call[c].picks) = call[c].cover
        /\ NoRepeat(call[c].picks)
        /\ Returned(c) => Range(call[c].result) = call[c].cover /\ NoRepeat(call[c].result)

\* The bitset selector is inside its loop, two sets chosen and elements left.
C4_Witness ==
    /\ Returned(1) /\ Len(call[1].picks) > 2
    /\ call[2].pc = "loop" /\ Len(call[2].picks) = 2
    /\ any(call[2].uncovered_elements)

\* C5 as stated: if some input set's elements equal the Universe, the cover has
\* exactly one member, a set whose elements equal the Universe.
C5_OneSetCoversAll_Original ==
    \A c \in Calls :
        (Returned(c) /\ \E k \in DOMAIN sets : Universal(k))
        => /\ Len(call[c].result) = 1
           /\ Universal(call[c].result[1])

\* C5 amended: the same, for a Universe that is not empty.
C5_OneSetCoversAll ==
    \A c \in Calls :
        (Returned(c) /\ AllElements # {} /\ \E k \in DOMAIN sets : Universal(k))
        => /\ Len(call[c].result) = 1
           /\ Universal(call[c].result[1])

\* Both selectors returned; a set equal to the Universe exists, and in both scans
\* a smaller non-empty set comes before it.
C5_Witness ==
    /\ Returned(1) /\ Returned(2)
    /\ \E k \in DOMAIN sets : Universal(k)
    /\ ~Universal(sets_order[1]) /\ Len(sets[sets_order[1]]) > 0
    /\ ~Universal(call[2].bit_order[1]) /\ Len(sets[call[2].bit_order[1]]) > 0

\* C6 as stated: if the input sets are pairwise disjoint, the cover holds every
\* input set identifier.
C6_AllSetsNeeded_Original ==
    \A c \in Calls :
        (Returned(c) /\ PairwiseDisjoint)
        => Range(call[c].result) = DOMAIN sets /\ Len(call[c].result) = len(sets)

\* C6 amended: the same, for input sets none of which is empty.
C6_AllSetsNeeded ==
    \A c \in Calls :
        (Returned(c) /\ PairwiseDisjoint /\ \A k \in DOMAIN sets : Len(sets[k]) > 0)
        => Range(call[c].result) = DOMAIN sets /\ Len(call[c].result) = len(sets)

\* Both selectors returned on three or more pairwise-disjoint non-empty sets.
C6_Witness ==
    /\ Returned(1) /\ Returned(2)
    /\ PairwiseDisjoint /\ \A k \in DOMAIN sets : Len(sets[k]) > 0
    /\ len(sets) > 2

\* The bit_sets of the second call iterate in the order of those of the first.
SameRelativeOrder ==
    call[2].selector = "greedy_set_cover_1"
    => call[2].bit_order = SelectSeq(call[1].bit_order, non_empty)

\* C7: no empty set is ever chosen, and a selector run on the input without its
\* empty sets (same relative scan order) neither fails nor chooses otherwise:
\* round by round the same identifiers, at the end the same elements covered.
C7_EmptySetsIrrelevant ==
    /\ \A c \in Calls : \A k \in call[c].cover : Len(sets[k]) > 0
    /\ call[2].pc \notin Panics
    /\ SameRelativeOrder =>
          /\ \A k \in 1..Len(call[2].picks) :
                k <= Len(call[1].picks) /\ call[2].picks[k] = call[1].picks[k]
          /\ Returned(2) =>
                /\ Range(call[2].result) = Range(call[1].result)
                /\ ElementsOf(Range(call[2].result)) = ElementsOf(Range(call[1].result))

\* The bitset selector returned two sets on the input without its empty sets, in
\* the same relative order, and the first call scanned an empty set first.
C7_Witness ==
    /\ Returned(1) /\ Returned(2)
    /\ call[2].selector = "greedy_set_cover_1" /\ SameRelativeOrder
    /\ Len(call[2].result) = 2
    /\ Len(sets[call[1].bit_order[1]]) = 0
    /\ Len(sets[sets_order[1]]) = 0

\* C8: with the scan order of bit_sets equal to that of the input map, the two
\* selectors choose the same identifier in every round and leave the same
\* elements uncovered, and return the same identifiers.
C8_Lockstep ==
    (call[2].pc # "start" /\ call[2].bit_order = sets_order)
    => /\ \A k \in 1..Len(call[2].history) :
             /\ k <= Len(call[1].history)
             /\ Decode(2, call[2].history[k]) = call[1].history[k]
       /\ \A k \in 1..Len(call[2].picks) :
             k <= Len(call[1].picks) /\ call[2].picks[k] = call[1].picks[k]
       /\ Returned(2) =>
             /\ Len(call[2].picks) = Len(call[1].picks)
             /\ Range(call[2].result) = Range(call[1].result)

\* Both selectors returned after two or more rounds in the same scan order, and
\* a round had a tie, so that the order decided.
C8_Witness ==
    /\ Returned(1) /\ Returned(2)
    /\ call[2].bit_order = sets_order
    /\ Len(call[2].picks) >= 2
    /\ ~NoTie(1)

\* C9: whatever the two scan orders, the two covers cover the same elements, and
\* if no round of either run had a tie they hold the same identifiers.
C9_SameCoverage ==
    (Returned(1) /\ Returned(2))
    => /\ ElementsOf(Range(call[1].result)) = ElementsOf(Range(call[2].result))
       /\ (NoTie(1) /\ NoTie(2)) => Range(call[1].result) = Range(call[2].result)

\* Both selectors returned two or more sets without any tie, in different scan
\* orders.
C9_Witness ==
    /\ Returned(1) /\ Returned(2)
    /\ call[2].bit_order # sets_order
    /\ NoTie(1) /\ NoTie(2)
    /\ Len(call[1].result) >= 2

\* C10 as stated: greedy_set_cover(sets, algo) returns the same sequence as the
\* selector of that number called directly.
C10_DispatchSameResult_Original ==
    (Returned(1) /\ Returned(2)) => call[1].result = call[2].result

\* C10 amended: greedy_set_cover(sets, algo) runs the selector of that number;
\* when the two calls scan the candidates in the same order (for algo 0 they
\* always do) the two results hold the same identifiers, and they are the same
\* sequence when the cover has at most one member.
C10_DispatchSameResult ==
    /\ Returned(1) =>
          call[1].selector = (IF call[1].algo = 0 THEN "greedy_set_cover_0"
                              ELSE "greedy_set_cover_1")
    /\ (Returned(1) /\ Returned(2)
        /\ (call[1].algo = 1 => call[1].bit_order = call[2].bit_order))
       => /\ Range(call[1].result) = Range(call[2].result)
          /\ Len(call[1].result) = Len(call[2].result)
          /\ Len(call[1].result) <= 1 => call[1].result = call[2].result

\* greedy_set_cover(sets, 1) and greedy_set_cover_1(sets) returned the same two
\* identifiers, scanned in the same order, as different sequences.
C10_Witness ==
    /\ Returned(1) /\ Returned(2)
    /\ call[1].entry = "greedy_set_cover" /\ call[1].algo = 1
    /\ call[1].bit_order = call[2].bit_order
    /\ Len(call[1].result) = 2
    /\ call[1].result # call[2].result

\* C11: for an algo other than 0 and 1 greedy_set_cover does nothing but fail
\* with "Wrong algo choice": no selector is entered, no universe, mapping, bit
\* vector or cover is built, no round runs, and the run ends there; for algo 0
\* or 1 that failure never happens.
C11_WrongAlgoFailsFirst ==
    /\ call[1].algo \notin {0, 1} =>
          /\ call[1].pc \in {"dispatch", "panic_algo"}
          /\ call[1].selector = ""
          /\ call[1].uncovered_elements = {} /\ call[1].cover = {}
          /\ call[1].rounds = 0
          /\ call[1].picks = <<>> /\ call[1].history = <<>>
          /\ call[1].mapping = <<>> /\ call[1].bit_sets = <<>>
          /\ call[1].intersection_buffer = <<>> /\ call[1].result = <<>>
          /\ call[2].pc = "start"
    /\ call[1].algo \in {0, 1} => call[1].pc # "panic_algo"
    /\ call[2].pc # "panic_algo"

\* greedy_set_cover(sets, -1) failed on an input of two non-empty sets.
C11_Witness ==
    /\ call[1].entry = "greedy_set_cover" /\ call[1].algo = -1
    /\ call[1].pc = "panic_algo"
    /\ len(sets) = 2 /\ \A k \in DOMAIN sets : Len(sets[k]) > 0

\* C12: on {A: [1, 2, 3], B: [1, 2], C: [2]} both selectors, whatever the scan
\* orders, choose A in their only round and return exactly [A].
C12_BasicCase ==
    \A c \in Calls :
        /\ \A k \in 1..Len(call[c].picks) : k = 1 /\ call[c].picks[k] = 1
        /\ Returned(c) => call[c].result = <<1>>

\* Both selectors returned with A the last set of both scans.
C12_Witness ==
    /\ Returned(1) /\ Returned(2)
    /\ sets = test_basic_case_sets
    /\ sets_order[3] = 1 /\ call[2].bit_order[3] = 1

\* C13: on {1: [1..6], 2: [1, 2, 7], 3: [3, 4, 8], 4: [5, 6, 9], 5: [7, 8, 9, 10]}
\* both selectors, whatever the scan orders, choose set 1 in the first round
\* (gain 6) and set 5 in the second (gain 4), and return those two identifiers.
C13_ComplexCase ==
    \A c \in Calls :
        /\ Len(call[c].picks) <= 2
        /\ Len(call[c].picks) >= 1 =>
              call[c].picks[1] = 1 /\ Gain(1, UncoveredBefore(c, 1)) = 6
        /\ Len(call[c].picks) >= 2 =>
              call[c].picks[2] = 5 /\ Gain(5, UncoveredBefore(c, 2)) = 4
        /\ Returned(c) => Len(call[c].result) = 2 /\ Range(call[c].result) = {1, 5}

\* Both selectors returned with set 1 the last set of both scans and set 5 the
\* first.
C13_Witness ==
    /\ Returned(1) /\ Returned(2)
    /\ sets = test_complex_sets
    /\ sets_order[5] = 1 /\ call[2].bit_order[5] = 1
    /\ sets_order[1] = 5 /\ call[2].bit_order[1] = 5

\* Every input set holds one element, and no two hold the same one.
DistinctSingletons ==
    /\ \A k \in DOMAIN sets : Cardinality(Range(sets[k])) = 1
    /\ \A i, j \in DOMAIN sets : i # j => Range(sets[i]) # Range(sets[j])

\* C14: when every input set is a singleton and the singletons are pairwise
\* distinct, the cover a selector returns has as many members as there are
\* input sets.
C14_OneElementPerSet ==
    \A c \in Calls :
        (Returned(c) /\ DistinctSingletons) => Len(call[c].result) = len(sets)

\* Both selectors returned on three distinct singletons, one of them written
\* with its element twice.
C14_Witness ==
    /\ Returned(1) /\ Returned(2)
    /\ DistinctSingletons /\ len(sets) = 3
    /\ \E k \in DOMAIN sets : Len(sets[k]) = 2

\* C15 as stated: the returned sequence lists the chosen identifiers in the
\* order of selection, the identifier chosen in round k at position k.
C15_ResultInSelectionOrder_Original ==
    \A c \in Calls : Returned(c) => call[c].result = call[c].picks

\* C15 amended: the returned sequence lists each chosen identifier once, in the
\* iteration order of the cover hash set; it is the order of selection when at
\* most one set was chosen.
C15_ResultInSelectionOrder ==
    \A c \in Calls :
        Returned(c) =>
            /\ Len(call[c].result) = Len(call[c].picks)
            /\ \A k \in 1..Len(call[c].picks) :
                  \E i \in 1..Len(call[c].result) : call[c].result[i] = call[c].picks[k]
            /\ Len(call[c].picks) <= 1 => call[c].result = call[c].picks

\* Both selectors returned three identifiers, the one chosen first at the last
\* position.
C15_Witness ==
    /\ Returned(1) /\ Returned(2)
    /\ Len(call[1].picks) = 3 /\ call[1].result[3] = call[1].picks[1]
    /\ Len(call[2].picks) = 3 /\ call[2].result[3] = call[2].picks[1]

\* Call c has ended: it returned or it failed.
Terminated(c) == call[c].pc \in {"returned", "panic_algo"} \cup Panics

\* C16: every call that is made ends, by a return or a failure, and never runs
\* more rounds than there are sets in its input; a set chosen in one round is
\* never chosen in a later one.
C16_Terminates ==
    /\ [](\A c \in Calls :
            /\ call[c].rounds <= len(arg_sets(c))
            /\ Len(call[c].picks) <= call[c].rounds
            /\ NoRepeat(call[c].picks))
    /\ \A c \in Calls : [](Turn(c) => <>Terminated(c))

\* Both calls ended after as many rounds as there are sets, two of them.
C16_Witness ==
    /\ Terminated(1) /\ Terminated(2)
    /\ len(sets) = 2
    /\ call[1].rounds = 2 /\ call[2].rounds = 2

\* The two calls scan the candidates in the same order: the naive selector
\* scans the input map itself, the bitset selector the bit_sets map it built.
SameScanOrder ==
    /\ call[2].pc # "start"
    /\ call[1].algo = 1 => call[1].bit_order = call[2].bit_order

C18_PickIsMaximal ==
    \A c \in Calls : \A k \in 1..Len(call[c].picks) :
        \A other \in DOMAIN sets :
            Gain(other, UncoveredBefore(c, k)) <= Gain(call[c].picks[k], UncoveredBefore(c, k))

\* Both selectors returned after two rounds or more, and in both the first set
\* scanned held uncovered elements but fewer than the set chosen first.
C18_Witness ==
    /\ Returned(1) /\ Returned(2)
    /\ Len(call[1].picks) >= 2 /\ Len(call[2].picks) >= 2
    /\ Gain(sets_order[1], AllElements) > 0
    /\ Gain(sets_order[1], AllElements) < Gain(call[1].picks[1], AllElements)
    /\ Gain(call[2].bit_order[1], AllElements) > 0
    /\ Gain(call[2].bit_order[1], AllElements) < Gain(call[2].picks[1], AllElements)

\* The order in which call c scans the candidates in every round.
ScanOrder(c) ==
    IF Bitset(c) THEN call[c].bit_order ELSE arg_order(c)

\* The position of key in the scan of call c.
Position(c, key) == CHOOSE i \in DOMAIN ScanOrder(c) : ScanOrder(c)[i] = key

\* C19: in every round that chose a set, the chosen set comes before every other
\* set that held as many of the uncovered elements in the scan order of the call.
C19_FirstFoundWins ==
    \A c \in Calls : \A k \in 1..Len(call[c].picks) :
        \A other \in DOMAIN sets :
            Gain(other, UncoveredBefore(c, k)) = Gain(call[c].picks[k], UncoveredBefore(c, k))
            => Position(c, call[c].picks[k]) <= Position(c, other)

\* Both selectors returned; in the second round of each the set chosen was one of
\* several of the largest gain and not the last of them in the scan.
C19_Witness ==
    /\ Returned(1) /\ Returned(2)
    /\ \A c \in Calls :
          /\ Len(call[c].picks) >= 2
          /\ \E other \in DOMAIN sets :
                /\ other # call[c].picks[2]
                /\ Gain(other, UncoveredBefore(c, 2))
                      = Gain(call[c].picks[2], UncoveredBefore(c, 2))
                /\ Position(c, call[c].picks[2]) < Position(c, other)

\* The elements that call c holds as uncovered now.
Uncovered(c) ==
    IF Bitset(c)
    THEN Decode(c, call[c].uncovered_elements) ELSE call[c].uncovered_elements

\* The identifiers call c chose in its first k rounds.
ChosenIn(c, k) == {call[c].picks[i] : i \in 1..k}

\* Between the rounds of a selector: what is uncovered is the Universe without
\* the elements of the sets chosen so far, and the cover holds those sets.
RoundBoundary(c) ==
    call[c].pc \notin {"dispatch", "start"}
    => /\ Len(call[c].history) = Len(call[c].picks) + 1
       /\ UncoveredBefore(c, 1) = AllElements
       /\ \A k \in 1..Len(call[c].history) :
             UncoveredBefore(c, k) = AllElements \ ElementsOf(ChosenIn(c, k - 1))
       /\ Uncovered(c) = AllElements \ ElementsOf(call[c].cover)
       /\ call[c].cover = ChosenIn(c, Len(call[c].picks))

\* A step of call c that is a round choosing a set s: the elements of s leave
\* the uncovered ones, s and nothing else joins the cover.
RoundStep(c) ==
    Len(call'[c].picks) = Len(call[c].picks) + 1
    => LET s == call'[c].picks[Len(call'[c].picks)]
       IN  /\ Uncovered(c)' = Uncovered(c) \ Range(sets[s])
           /\ call'[c].cover = call[c].cover \cup {s}
           /\ Cardinality(call'[c].cover) = Cardinality(call[c].cover) + 1
           /\ call'[c].rounds = call[c].rounds + 1

\* C20: at every round boundary of both selectors the uncovered elements are the
\* Universe without the elements of the sets chosen so far, starting with the
\* whole Universe; a round that chooses s takes the elements of s from them and
\* adds s alone to the cover; no step changes the input sets.
C20_UncoveredIsRemainder ==
    /\ [](\A c \in Calls : RoundBoundary(c))
    /\ [][(\A c \in Calls : RoundStep(c)) /\ sets' = sets /\ sets_order' = sets_order]_vars

\* Both selectors returned after a second round that chose a set holding an
\* element the first round had covered.
C20_Witness ==
    /\ Returned(1) /\ Returned(2)
    /\ \A c \in Calls :
          /\ Len(call[c].picks) = 2
          /\ Range(sets[call[c].picks[2]]) \cap Range(sets[call[c].picks[1]]) # {}

\* C21: in every round of the naive selector, of the bitset selector of
\* setcover-core and of the bitset selector of src/rust, the set chosen is not
\* one chosen in an earlier round, so the cover has as many members as there
\* were rounds that chose a set.
C21_PickNotInCover ==
    \A c \in Calls :
        /\ \A k \in 1..Len(call[c].picks) : call[c].picks[k] \notin ChosenIn(c, k - 1)
        /\ Cardinality(call[c].cover) = Len(call[c].picks)
        /\ call[c].cover = ChosenIn(c, Len(call[c].picks))

\* The naive selector and the bitset selector of src/rust both returned after
\* two rounds, and the second scan of each met the set chosen first before the
\* set it chose.
C21_Witness ==
    /\ Returned(1) /\ Returned(2)
    /\ call[1].selector = "greedy_set_cover_0"
    /\ call[2].selector = "rust::greedy_set_cover_1"
    /\ Len(call[1].picks) = 2 /\ sets_order[1] = call[1].picks[1]
    /\ Len(call[2].picks) = 2 /\ call[2].bit_order[1] = call[2].picks[1]

\* The candidates the scan of round k of call c evaluates, in scan order: all
\* sets, without those chosen before where the scan skips them.
Candidates(c, k) ==
    LET scanned(key) == call[c].selector = "rust::greedy_set_cover_1"
                        \/ key \notin ChosenIn(c, k - 1)
    IN  SelectSeq(call[c].bit_order, scanned)

\* C22: when a round of a bitset selector has updated `uncovered`, the saved
\* best intersection is the bit vector of the set chosen AND `uncovered` as it
\* was before the round, and that is what was subtracted; the scratch buffer
\* holds the intersection of the candidate scanned last, whichever set won.
C22_SavedIntersection ==
    \A c \in Calls :
        (Bitset(c) /\ Len(call[c].picks) >= 1 /\ call[c].pc \notin Panics)
        => LET k == Len(call[c].picks)
               before == call[c].history[k]
               winner == bit_and(call[c].bit_sets[call[c].picks[k]], before)
               scanned == Candidates(c, k)
           IN  /\ call[c].best_intersection = winner
               /\ call[c].uncovered_elements = bit_and(before, bit_not(winner))
               /\ call[c].history[k + 1] = call[c].uncovered_elements
               /\ call[c].intersection_buffer
                     = bit_and(call[c].bit_sets[scanned[Len(scanned)]], before)

\* Both bitset selectors are past a round in which a candidate scanned after
\* the set chosen left other contents in the scratch buffer than were saved.
C22_Witness ==
    /\ call[1].selector = "greedy_set_cover_1" /\ call[2].selector = "rust::greedy_set_cover_1"
    /\ \A c \in Calls :
          /\ Len(call[c].picks) = 1
          /\ call[c].bit_order[1] = call[c].picks[1]
          /\ call[c].intersection_buffer # call[c].best_intersection
          /\ any(call[c].intersection_buffer)

\* C23: once a bitset selector is set up, every input set has a bit vector over
\* 0..n-1, n the number of elements of the Universe, whose bit i is set exactly
\* when the element numbered i occurs in the set's Vec, however often; the
\* vector of an empty set is all zero.
C23_Encoding ==
    \A c \in Calls :
        (Bitset(c) /\ call[c].pc # "start")
        => LET n == Cardinality(AllElements)
           IN  /\ DOMAIN call[c].bit_sets = DOMAIN sets
               /\ \A key \in DOMAIN sets :
                     /\ DOMAIN call[c].bit_sets[key] = 0..(n - 1)
                     /\ \A i \in 0..(n - 1) :
                           call[c].bit_sets[key][i]
                           <=> \E j \in 1..Len(sets[key]) : call[c].mapping[sets[key][j]] = i
                     /\ Len(sets[key]) = 0 => call[c].bit_sets[key] = bitvec(FALSE, n)

\* Both bitset selectors are set up on an input of an empty set and a set that
\* holds one element twice, the Universe having another element.
C23_Witness ==
    /\ call[1].selector = "greedy_set_cover_1" /\ call[2].selector = "rust::greedy_set_cover_1"
    /\ call[2].pc = "loop"
    /\ len(sets) = 2 /\ Cardinality(AllElements) = 1
    /\ \E key \in DOMAIN sets : Len(sets[key]) = 0
    /\ \E key \in DOMAIN sets : Len(sets[key]) = 2 /\ sets[key][1] = sets[key][2]

\* Call c is the element indexer, inside its loop or past it.
Indexing(c) ==
    call[c].selector = "map_elements_to_integers_owned" /\ call[c].pc \in {"for", "returned"}

\* C24: whatever sequence the element indexer is given, at every point of its
\* loop and at its return every distinct element yielded so far has one id, no
\* two elements have the same id, and the ids are 0..n-1 for n distinct
\* elements; what it returns maps exactly the elements of the whole input.
C24_IndexerBijection ==
    \A c \in Calls :
        Indexing(c)
        => LET m == call[c].mapping
               n == Cardinality(Range(call[c].seen))
           IN  /\ DOMAIN m = Range(call[c].seen)
               /\ \A e1, e2 \in DOMAIN m : e1 # e2 => m[e1] # m[e2]
               /\ Range(m) = 0..(n - 1)
               /\ call[c].next_id = n
               /\ Returned(c) =>
                     /\ call[c].result = m
                     /\ call[c].seen \in elements_of(c)
                     /\ DOMAIN call[c].result = AllElements
                     /\ Range(call[c].result) = 0..(Cardinality(AllElements) - 1)

\* The indexer returned on a sequence of six elements, three of them distinct,
\* and then on the three distinct elements in another order.
C24_Witness ==
    /\ Returned(1) /\ Returned(2)
    /\ Indexing(1) /\ Indexing(2)
    /\ Len(call[1].seen) = 6 /\ Cardinality(AllElements) = 3
    /\ call[1].result # call[2].result

\* The number of distinct elements of q before the first occurrence of e.
FirstSeenBefore(q, e) ==
    LET first == CHOOSE i \in 1..Len(q) : q[i] = e /\ \A j \in 1..(i - 1) : q[j] # e
    IN  Cardinality({q[j] : j \in 1..(first - 1)})

\* The ids follow the order of first occurrence; an empty input gives an empty
\* mapping; the loop's result is that of map_elements on the whole input.
FirstSeenOrder(c) ==
    Indexing(c)
    => /\ \A e \in DOMAIN call[c].mapping :
             call[c].mapping[e] = FirstSeenBefore(call[c].seen, e)
       /\ call[c].mapping = map_elements(call[c].seen, 1, <<>>, 0)
       /\ (Returned(c) /\ Len(call[c].seen) = 0) => DOMAIN call[c].result = {}

\* A step of the loop of call c: an element mapped already changes neither the
\* mapping nor next_id, a new one gets next_id and advances it by one.
IndexerStep(c) ==
    Len(call'[c].seen) = Len(call[c].seen) + 1
    => LET element == Head(call[c].elements)
       IN  IF element \in DOMAIN call[c].mapping
           THEN call'[c].mapping = call[c].mapping /\ call'[c].next_id = call[c].next_id
           ELSE /\ call'[c].mapping[element] = call[c].next_id
                /\ call'[c].next_id = call[c].next_id + 1
                /\ DOMAIN call'[c].mapping = DOMAIN call[c].mapping \cup {element}
                /\ \A e \in DOMAIN call[c].mapping : call'[c].mapping[e] = call[c].mapping[e]

\* C25: the element indexer gives the first distinct element id 0 and the k-th
\* distinct element first seen id k-1; meeting an element again changes neither
\* the mapping nor the next id; an empty input gives the empty mapping.
C25_FirstSeenIds ==
    /\ [](\A c \in Calls : FirstSeenOrder(c))
    /\ [][\A c \in Calls : IndexerStep(c)]_vars

\* The indexer returned on a sequence that yields its first element again after
\* another one and a new element after that.
C25_Witness ==
    /\ Returned(1) /\ Indexing(1)
    /\ Len(call[1].seen) >= 4
    /\ call[1].seen[3] = call[1].seen[1] /\ call[1].seen[2] # call[1].seen[1]
    /\ call[1].seen[4] \notin {call[1].seen[1], call[1].seen[2]}
    /\ call[1].result[call[1].seen[4]] = 2

\* The greedy choice stated on element sets alone: the first key of `order`
\* among those whose element set meets `uncovered` in the most elements.
FirstLargest(order, uncovered) ==
    LET top == {i \in DOMAIN order :
                   \A j \in DOMAIN order :
                       Gain(order[j], uncovered) <= Gain(order[i], uncovered)}
    IN  order[CHOOSE i \in top : \A j \in top : i <= j]

\* The identifiers chosen round by round, as a function of the element sets, the
\* scan order and nothing else.
RECURSIVE ChoiceByElementSets(_, _, _)
ChoiceByElementSets(order, uncovered, rounds) ==
    IF rounds = 0 \/ uncovered = {} THEN <<>>
    ELSE LET key == FirstLargest(order, uncovered)
         IN  <<key>> \o ChoiceByElementSets(order, uncovered \ Range(sets[key]), rounds - 1)

\* The count the scan of round k of call c found for the set it chose.
CountFound(c, k) ==
    IF call[c].selector = "greedy_set_cover_0"
    THEN Cardinality(scan_0(sets, ScanOrder(c), 1, call[c].history[k],
                            [best_set_key |-> None, best_set_covered |-> {}]).best_set_covered)
    ELSE scan_1(call[c].bit_sets, ScanOrder(c), 1, call[c].history[k], ChosenIn(c, k - 1),
                [best_set_key |-> None, best_set_covered_count |-> 0,
                 best_intersection |-> None,
                 intersection_buffer |-> <<>>]).best_set_covered_count

\* C26: what a selector chooses depends on the Vecs only through their element
\* sets: round by round it is the choice determined by the element sets and the
\* scan order, so that inputs whose Vecs are reorderings of one another, with or
\* without repeated elements, get the same cover in the same scan order; the
\* count found for the set chosen is the number of its distinct uncovered
\* elements.
C26_ElementSetsDecide ==
    \A c \in Calls :
        call[c].pc \notin {"start"} \cup Panics
        => LET choice == ChoiceByElementSets(ScanOrder(c), AllElements, len(sets))
           IN  /\ Len(call[c].picks) <= Len(choice)
               /\ \A k \in 1..Len(call[c].picks) :
                     /\ call[c].picks[k] = choice[k]
                     /\ CountFound(c, k) = Gain(call[c].picks[k], UncoveredBefore(c, k))
               /\ Returned(c) =>
                     call[c].picks = choice /\ Range(call[c].result) = Range(choice)

\* Both selectors returned two sets on an input that has a Vec with an element
\* twice and two Vecs that are the same two elements in different order.
C26_Witness ==
    /\ Returned(1) /\ Returned(2)
    /\ Len(call[1].picks) = 2 /\ Len(call[2].picks) = 2
    /\ \E k \in DOMAIN sets : Len(sets[k]) = 2 /\ sets[k][1] = sets[k][2]
    /\ \E i, j \in DOMAIN sets :
          /\ Len(sets[i]) = 2 /\ Len(sets[j]) = 2
          /\ sets[i][1] = sets[j][2] /\ sets[i][2] = sets[j][1] /\ sets[i][1] # sets[i][2]

\* Two identifiers of the input have the same element set, and it is not empty.
Duplicates(i, j) == i # j /\ Range(sets[i]) = Range(sets[j]) /\ Range(sets[i]) # {}

\* C27: of two input sets of different identifiers and the same non-empty
\* element set at most one is ever in the cover, and the cover returned has
\* fewer members than the input has sets.
C27_DuplicateSets ==
    \A c \in Calls : \A i, j \in DOMAIN sets :
        Duplicates(i, j)
        => /\ ~(i \in call[c].cover /\ j \in call[c].cover)
           /\ Returned(c) =>
                 /\ ~(i \in Range(call[c].result) /\ j \in Range(call[c].result))
                 /\ Len(call[c].result) < len(sets)

\* Both selectors returned two sets on an input of three sets, two of which
\* hold the same two elements, and chose one of those two.
C27_Witness ==
    /\ Returned(1) /\ Returned(2)
    /\ len(sets) = 3 /\ Len(call[1].result) = 2 /\ Len(call[2].result) = 2
    /\ \E i, j \in DOMAIN sets :
          /\ Duplicates(i, j) /\ Cardinality(Range(sets[i])) = 2
          /\ i \in call[1].cover /\ j \in call[2].cover

\* C28 as stated: on the chain of n >= 3 sets, set i holding i and i + 1, both
\* selectors return fewer than n sets that cover all n + 1 elements, whatever
\* the scan order.
C28_Chain_Original ==
    \A c \in Calls :
        (Returned(c) /\ len(sets) >= 3)
        => /\ Len(call[c].result) < len(sets)
           /\ ElementsOf(Range(call[c].result)) = 0..len(sets)

\* C28 amended: the same for n >= 4; for n = 3 the cover has fewer than n sets
\* unless the middle set is chosen first, and covers all elements in any case.
C28_Chain ==
    \A c \in Calls :
        Returned(c)
        => /\ ElementsOf(Range(call[c].result)) = 0..len(sets)
           /\ len(sets) >= 4 => Len(call[c].result) < len(sets)
           /\ (len(sets) = 3 /\ call[c].picks[1] # 2) => Len(call[c].result) < len(sets)

\* Both selectors returned three of the four sets of the chain, having chosen a
\* set of the middle first.
C28_Witness ==
    /\ Returned(1) /\ Returned(2)
    /\ len(sets) = 4
    /\ call[1].picks[1] = 2 /\ Len(call[1].result) = 3
    /\ call[2].picks[1] = 3 /\ Len(call[2].result) = 3

\* C29: every set chosen held, when it was chosen, an element still uncovered,
\* so each choosing round leaves strictly fewer elements uncovered and none runs
\* once nothing is uncovered; the cover never has more members than the
\* Universe has elements; an input without sets or with empty sets only gives
\* the empty cover and no failure.
C29_PickCoversNew ==
    \A c \in Calls :
        call[c].pc # "start"
        => /\ \A k \in 1..Len(call[c].picks) :
                 /\ UncoveredBefore(c, k) # {}
                 /\ Gain(call[c].picks[k], UncoveredBefore(c, k)) >= 1
                 /\ UncoveredBefore(c, k + 1) \subseteq UncoveredBefore(c, k)
                 /\ UncoveredBefore(c, k + 1) # UncoveredBefore(c, k)
           /\ Cardinality(call[c].cover) <= Cardinality(AllElements)
           /\ AllElements = {} =>
                 /\ call[c].picks = <<>> /\ call[c].cover = {}
                 /\ call[c].pc \notin Panics
                 /\ Returned(c) => call[c].result = <<>>

\* Both selectors returned two sets, the second of which held one uncovered
\* element and one covered before.
C29_Witness ==
    /\ Returned(1) /\ Returned(2)
    /\ \A c \in Calls :
          /\ Len(call[c].picks) = 2
          /\ Cardinality(Range(sets[call[c].picks[2]])) = 2
          /\ Gain(call[c].picks[2], UncoveredBefore(c, 2)) = 1

\* C30: the bitset selector run with any numbering of the elements chooses, in
\* a given scan order of bit_sets, what the first call chose in that scan order
\* (the naive selector, which numbers nothing, or the bitset selector of
\* setcover-core with its first-seen numbering): the same identifier in every
\* round, the same elements left uncovered, the same identifiers returned.
C30_NumberingIrrelevant ==
    (call[2].selector = "rust::greedy_set_cover_1" /\ call[2].pc # "start"
     /\ call[2].bit_order = ScanOrder(1))
    => /\ \A k \in 1..Len(call[2].picks) :
             k <= Len(call[1].picks) /\ call[2].picks[k] = call[1].picks[k]
       /\ \A k \in 1..Len(call[2].history) :
             k <= Len(call[1].history)
             /\ Decode(2, call[2].history[k]) = UncoveredBefore(1, k)
       /\ Returned(2) =>
             /\ call[2].picks = call[1].picks
             /\ call[2].result = Range(call[1].result)

\* Two bitset selectors returned two sets in the same scan order with different
\* numberings of the elements, a round having had a tie.
C30_Witness ==
    /\ Returned(1) /\ Returned(2)
    /\ call[1].selector = "greedy_set_cover_1" /\ call[2].selector = "rust::greedy_set_cover_1"
    /\ call[2].bit_order = call[1].bit_order
    /\ call[2].mapping # call[1].mapping
    /\ Len(call[2].picks) = 2 /\ ~NoTie(2)
====
